---- MODULE Spec2Model ----
(***************************************************************************)
(* Model of server.py: a thread-per-request HTTP service that keeps one    *)
(* JSON document (parameters S, p, c, H, a member list and the id counter  *)
(* nextId) in state.json, guarded by the re-entrant STATE_LOCK.            *)
(*                                                                         *)
(* Each request handler is a sequence of steps of one thread; the steps    *)
(* are the points where another thread (or a crash) can interleave.        *)
(***************************************************************************)
EXTENDS Integers, Sequences, FiniteSets, TLC

(***************************************************************************)
(* Bounds of the model.                                                    *)
(***************************************************************************)
NumThreads == 2
MaxRequests == 3

Threads == 1..NumThreads

(***************************************************************************)
(* Program constants.                                                      *)
(***************************************************************************)
NameMaxLen == 100
HoursCap == 10000000
STATE_PATH == "state.json"

(***************************************************************************)
(* Values.  A JSON number is a rational n/d (d > 0, lowest terms); "nan"   *)
(* and "inf" are the non-finite floats; a JSON value that float() rejects  *)
(* is "str"; a key that is missing from a body is "absent".                *)
(***************************************************************************)
Num(n, d) == [t |-> "num", n |-> n, d |-> d]
Str == [t |-> "str", n |-> 0, d |-> 1]
Null == [t |-> "null", n |-> 0, d |-> 1]
Absent == [t |-> "absent", n |-> 0, d |-> 1]
NaN == [t |-> "nan", n |-> 0, d |-> 1]
Inf == [t |-> "inf", n |-> 0, d |-> 1]

(***************************************************************************)
(* Names are sequences of characters; " " is the whitespace character.     *)
(***************************************************************************)
RECURSIVE LStrip(_)
LStrip(s) == IF s # <<>> /\ Head(s) = " " THEN LStrip(Tail(s)) ELSE s

RECURSIVE RStrip(_)
RStrip(s) ==
    IF s # <<>> /\ s[Len(s)] = " " THEN RStrip(SubSeq(s, 1, Len(s) - 1)) ELSE s

Strip(s) == RStrip(LStrip(s))

Truncate(s) == IF Len(s) > NameMaxLen THEN SubSeq(s, 1, NameMaxLen) ELSE s

DigitChars == <<"0", "1", "2", "3", "4", "5", "6", "7", "8", "9">>

RECURSIVE Decimal(_)
Decimal(n) ==
    IF n < 10 THEN <<DigitChars[n + 1]>>
    ELSE Decimal(n \div 10) \o <<DigitChars[(n % 10) + 1]>>

(* The two characters of the placeholder prefix are written "Cheng", "Yuan". *)
PlaceholderName(mid) == <<"Cheng", "Yuan">> \o Decimal(mid)

(***************************************************************************)
(* The document.                                                           *)
(***************************************************************************)
Member(id, name, hours) == [id |-> id, name |-> name, hours |-> hours]

DefaultState ==
    [S |-> Num(600, 1), p |-> Num(1, 2), c |-> Num(9, 200), H |-> Num(150, 1),
     nextId |-> 4,
     members |-> << Member(1, <<"Zhang", "San">>, Num(5, 1)),
                    Member(2, <<"Li", "Si">>, Num(8, 1)),
                    Member(3, <<"Wang", "Wu">>, Num(10, 1)) >>]

(* Placeholder content of a file that holds no document. *)
NoDoc ==
    [S |-> Null, p |-> Null, c |-> Null, H |-> Null, nextId |-> 0, members |-> <<>>]

(***************************************************************************)
(* _ensure_next_id: the id to issue, and the document with the counter     *)
(* advanced past it.                                                       *)
(***************************************************************************)
RECURSIVE MaxId(_)
MaxId(members) ==
    IF members = <<>> THEN 0
    ELSE LET rest == MaxId(Tail(members))
         IN  IF Head(members).id > rest THEN Head(members).id ELSE rest

(* the counter is ignored: the id after the largest id present *)
EnsureNextId_FromMaxId(state) ==
    LET max_id == MaxId(state.members)
    IN  [id |-> max_id + 1, state |-> [state EXCEPT !.nextId = max_id + 2]]

(* the counter is left at the id issued *)
EnsureNextId_NoAdvance(state) ==
    LET max_id == MaxId(state.members)
        stored == IF state.nextId = 0 THEN max_id + 1 ELSE state.nextId
        next_id == IF stored <= max_id THEN max_id + 1 ELSE stored
    IN  [id |-> next_id, state |-> [state EXCEPT !.nextId = next_id]]

EnsureNextId(state) ==
    LET max_id == MaxId(state.members)
        stored == IF state.nextId = 0 THEN max_id + 1 ELSE state.nextId
        next_id == IF stored <= max_id THEN max_id + 1 ELSE stored
    IN  [id |-> next_id, state |-> [state EXCEPT !.nextId = next_id + 1]]

(***************************************************************************)
(* Input cleaning of /api/members and /api/submit_and_add, and of the      *)
(* hours of PUT /api/members/<id>.                                         *)
(***************************************************************************)
CleanName(raw) == Truncate(Strip(raw))

(* float(hours) raises for a value that is no number *)
HoursConvertible(raw) == raw.t # "str"

(* the cap is missing *)
ClampHours_NoCap(raw) ==
    IF raw.t \in {"absent", "null", "nan", "inf"} THEN Num(0, 1)
    ELSE IF raw.n < 0 THEN Num(0, 1)
    ELSE Num(raw.n, raw.d)

ClampHours(raw) ==
    IF raw.t \in {"absent", "null", "nan", "inf"} THEN Num(0, 1)
    ELSE IF raw.n < 0 THEN Num(0, 1)
    ELSE IF raw.n > HoursCap * raw.d THEN Num(HoursCap, 1)
    ELSE Num(raw.n, raw.d)

(***************************************************************************)
(* The in-memory edits of the handlers.  Each yields the edited document   *)
(* and the outcome: 0 to go on to save, or the status of an early return.  *)
(***************************************************************************)
Edit(state, status, mid, name) ==
    [state |-> state, status |-> status, mid |-> mid, name |-> name]

(* the four parameters are replaced wholesale *)
SetParamsOp_Wholesale(state, body) ==
    Edit([state EXCEPT !.S = body.S, !.p = body.p, !.c = body.c, !.H = body.H],
         0, 0, <<>>)

(* POST /api/state *)
SetParamsOp(state, body) ==
    Edit([state EXCEPT
            !.S = IF body.S.t # "absent" THEN body.S ELSE @,
            !.p = IF body.p.t # "absent" THEN body.p ELSE @,
            !.c = IF body.c.t # "absent" THEN body.c ELSE @,
            !.H = IF body.H.t # "absent" THEN body.H ELSE @],
         0, 0, <<>>)

(* the new member is put in front *)
AddOp_Prepends(state, name, hours) ==
    LET e == EnsureNextId(state)
        nm == IF name = <<>> THEN PlaceholderName(e.id) ELSE name
    IN  Edit([e.state EXCEPT !.members = <<Member(e.id, nm, hours)>> \o @],
             0, e.id, nm)

(* POST /api/members *)
AddOp(state, name, hours) ==
    LET e == EnsureNextId(state)
        nm == IF name = <<>> THEN PlaceholderName(e.id) ELSE name
    IN  Edit([e.state EXCEPT !.members = Append(@, Member(e.id, nm, hours))],
             0, e.id, nm)

(* the search keeps the last match *)
FindByName_Last(members, name) ==
    LET hits == {i \in 1..Len(members) :
                    Strip(members[i].name) = name /\ name # <<>>}
    IN  IF hits = {} THEN 0 ELSE CHOOSE i \in hits : \A j \in hits : i >= j

(* an empty name matches a member whose trimmed name is empty *)
FindByName_MatchesEmpty(members, name) ==
    LET hits == {i \in 1..Len(members) : Strip(members[i].name) = name}
    IN  IF hits = {} THEN 0 ELSE CHOOSE i \in hits : \A j \in hits : i <= j

(* the first member whose trimmed name is the (non-empty) name; 0 if none *)
FindByName(members, name) ==
    LET hits == {i \in 1..Len(members) :
                    Strip(members[i].name) = name /\ name # <<>>}
    IN  IF hits = {} THEN 0 ELSE CHOOSE i \in hits : \A j \in hits : i <= j

(* POST /api/submit_and_add *)
SubmitOp(state, name, hours) ==
    LET i == FindByName(state.members, name)
    IN  IF i # 0
        THEN Edit([state EXCEPT !.members[i].hours = hours],
                  0, state.members[i].id, name)
        ELSE AddOp(state, name, hours)

(* the counter is reset with the list *)
ClearOp_ResetsCounter(state) ==
    Edit([state EXCEPT !.members = <<>>, !.nextId = 1], 0, 0, <<>>)

(* POST /api/clear *)
ClearOp(state) == Edit([state EXCEPT !.members = <<>>], 0, 0, <<>>)

(* the first member with the id; 0 if none *)
FindById(members, id) ==
    LET hits == {i \in 1..Len(members) : members[i].id = id}
    IN  IF hits = {} THEN 0 ELSE CHOOSE i \in hits : \A j \in hits : i <= j

(* the converted hours are stored as they are *)
UpdateOp_StoresRaw(state, id, hasName, name, hours) ==
    LET i == FindById(state.members, id)
        named == IF hasName
                 THEN [state EXCEPT !.members[i].name = CleanName(name)]
                 ELSE state
    IN  IF i = 0 THEN Edit(state, 404, 0, <<>>)
        ELSE IF hours.t = "absent" THEN Edit(named, 0, id, <<>>)
        ELSE IF ~HoursConvertible(hours) THEN Edit(named, 400, id, <<>>)
        ELSE Edit([named EXCEPT !.members[i].hours = hours], 0, id, <<>>)

(* PUT /api/members/<id> *)
UpdateOp(state, id, hasName, name, hours) ==
    LET i == FindById(state.members, id)
        named == IF hasName
                 THEN [state EXCEPT !.members[i].name = CleanName(name)]
                 ELSE state
    IN  IF i = 0 THEN Edit(state, 404, 0, <<>>)
        ELSE IF hours.t = "absent" THEN Edit(named, 0, id, <<>>)
        ELSE IF ~HoursConvertible(hours) THEN Edit(named, 400, id, <<>>)
        ELSE Edit([named EXCEPT !.members[i].hours = ClampHours(hours)],
                  0, id, <<>>)

(* every member up to the one with the id is dropped *)
DeleteOp_DropsPrefix(state, id) ==
    LET kept == SelectSeq(state.members, LAMBDA m : m.id > id)
    IN  IF FindById(state.members, id) = 0 THEN Edit(state, 404, 0, <<>>)
        ELSE Edit([state EXCEPT !.members = kept], 0, id, <<>>)

(* DELETE /api/members/<id> *)
DeleteOp(state, id) ==
    LET kept == SelectSeq(state.members, LAMBDA m : m.id # id)
    IN  IF Len(kept) = Len(state.members) THEN Edit(state, 404, 0, <<>>)
        ELSE Edit([state EXCEPT !.members = kept], 0, id, <<>>)

(***************************************************************************)
(* _compute_response raises when float() rejects a parameter or when       *)
(* math.ceil meets a non-finite ratio or value.                            *)
(***************************************************************************)
ComputeRaises(state) ==
    \/ \E v \in {state.S, state.p, state.c, state.H} : v.t \in {"str", "nan"}
    \/ state.S.t = "inf"
    \/ state.p.t = "inf"
    \/ state.c.t = "inf" /\ state.members # <<>>

(***************************************************************************)
(* _compute_response.  The arithmetic is exact where Python's is in        *)
(* floating point; on the parameters and hours that the requests of this   *)
(* model supply, both give the same integers.                              *)
(***************************************************************************)
(* x or default *)
Falsy(v) == v.t \in {"absent", "null"} \/ (v.t = "num" /\ v.n = 0)

OrDefault(v, dflt) == IF Falsy(v) THEN dflt ELSE v

(* the floor of c: 0.000001 *)
MinC == Num(1, 1000000)

(* c = float(state.get("c", 0.000001) or 0.000001) *)
FlooredC(c) == OrDefault(c, MinC)

(* the quotient is rounded down *)
CeilDiv_Floor(n, d) == n \div d

(* math.ceil(n / d) for d > 0 *)
CeilDiv(n, d) == -((-n) \div d)

(* math.ceil(a * n / d) for a >= 0, d > 0, without a * n *)
CeilMulDiv(a, n, d) == (a \div d) * n + CeilDiv((a % d) * n, d)

(* r_ceil: the ceiling of S*p / (c*H), 0 when c*H is infinite *)
Ratio(S, p, c, H) ==
    IF c.t = "inf" \/ H.t = "inf" THEN 0
    ELSE LET n == S.n * p.n * c.d * H.d
             d == S.d * p.d * c.n * H.n
         IN  IF d = 0 THEN 0
             ELSE IF d < 0 THEN CeilDiv(-n, -d)
             ELSE CeilDiv(n, d)

(* g = ceil(hours * r_ceil) *)
Gram(hours, R) == CeilMulDiv(R, hours.n, hours.d)

(* v = ceil(g * c) *)
Value(g, c) == IF c.t = "inf" THEN 0 ELSE CeilMulDiv(g, c.n, c.d)

Computed(m, R, c) ==
    [id |-> m.id, name |-> m.name, hours |-> m.hours,
     g |-> Gram(m.hours, R), v |-> Value(Gram(m.hours, R), c)]

NoPayload == [S |-> Absent, p |-> Absent, c |-> Absent, H |-> Absent,
              R |-> 0, members |-> <<>>]

ComputeResponse(state) ==
    LET S == OrDefault(state.S, Num(0, 1))
        p == OrDefault(state.p, Num(0, 1))
        c == FlooredC(state.c)
        H == OrDefault(state.H, Num(1, 1))
        R == Ratio(S, p, c, H)
    IN  [S |-> S, p |-> p, c |-> c, H |-> H, R |-> R,
         members |-> [i \in 1..Len(state.members) |->
                         Computed(state.members[i], R, c)]]

(***************************************************************************)
(* Files.  A file is absent, holds a complete document, or holds text that *)
(* json.load rejects: "partial" while a writer has it open, "corrupt" when *)
(* it was damaged outside the program.                                     *)
(***************************************************************************)
FileAbsent == [kind |-> "absent", doc |-> NoDoc]
FilePartial == [kind |-> "partial", doc |-> NoDoc]
FileCorrupt == [kind |-> "corrupt", doc |-> NoDoc]
FileOf(state) == [kind |-> "doc", doc |-> state]

(* the document is written over the canonical file itself *)
TmpPath_InPlace(path) == path

TmpPath(path) == path \o ".tmp"

Paths == {STATE_PATH, TmpPath(STATE_PATH)}

(* open(path, "w"): the file exists and is empty *)
Truncated(files, path) == [files EXCEPT ![path] = FilePartial]

(* json.dump and close *)
Written(files, path, state) == [files EXCEPT ![path] = FileOf(state)]

(* os.replace(src, dst) *)
Replaced(files, src, dst) ==
    IF src = dst THEN files
    ELSE [q \in DOMAIN files |->
            IF q = dst THEN files[src]
            ELSE IF q = src THEN FileAbsent
            ELSE files[q]]

(* the except branch of json.load is missing: whatever exists is returned *)
Loadable_WhenExists(file) == file.kind # "absent"

(* os.path.exists and json.load succeed *)
Loadable(file) == file.kind = "doc"

(***************************************************************************)
(* STATE_LOCK, a threading.RLock: its owner (0 when free) and its depth.   *)
(***************************************************************************)
LockFree == [owner |-> 0, count |-> 0]

(* a lock that excludes nobody *)
LockAvailable_NoExclusion(l, t) == TRUE

(* the lock is not re-entrant *)
LockAvailable_NotReentrant(l, t) == l.owner = 0

LockAvailable(l, t) == l.owner \in {0, t}

Acquired(l, t) ==
    [owner |-> t, count |-> IF l.owner = t THEN l.count + 1 ELSE 1]

Released(l) ==
    IF l.count <= 1 THEN LockFree ELSE [l EXCEPT !.count = @ - 1]

(***************************************************************************)
(* Requests.  name and hours are the raw values of the body ("hasName"     *)
(* tells whether the body has the key "name"), id is the member id of the  *)
(* path (idOk: int() accepts it), body holds the keys S, p, c, H.  A body  *)
(* that is empty or that json.loads rejects is a body without keys.        *)
(***************************************************************************)
NoBody == [S |-> Absent, p |-> Absent, c |-> Absent, H |-> Absent]

Request(op) ==
    [op |-> op, hasName |-> FALSE, name |-> <<>>, hours |-> Absent,
     id |-> 0, idOk |-> TRUE, body |-> NoBody]

NoRequest == Request("none")

GetRequests == {Request("GET")}

ParamBodies ==
    { NoBody,
      [NoBody EXCEPT !.S = Num(700, 1)],
      [NoBody EXCEPT !.c = Num(0, 1), !.H = Str] }

SetParamsRequests == {[Request("SETPARAMS") EXCEPT !.body = b] : b \in ParamBodies}

AddNames == {<<>>, <<" ", "a">>}

AddRequests ==
    {[Request("ADD") EXCEPT !.hasName = TRUE, !.name = n, !.hours = Num(7, 1)] :
        n \in AddNames}
    \cup {[Request("ADD") EXCEPT !.hours = Str]}

SubmitNames == {<<" ">>, <<"a", " ">>, <<"Li", "Si">>}

SubmitRequests ==
    {[Request("SUBMIT") EXCEPT !.hasName = TRUE, !.name = n, !.hours = Num(9, 1)] :
        n \in SubmitNames}
    \cup {[Request("SUBMIT") EXCEPT !.hours = Str]}

ClearRequests == {Request("CLEAR")}

PathIds == {2, 4}

UpdateRequests ==
    {[Request("UPDATE") EXCEPT !.id = i, !.hasName = TRUE, !.name = <<"a">>,
                               !.hours = Str] : i \in PathIds}
    \cup {[Request("UPDATE") EXCEPT !.id = i, !.hours = Num(3, 1)] : i \in PathIds}
    \cup {[Request("UPDATE") EXCEPT !.id = 2, !.hasName = TRUE, !.name = n] :
              n \in {<<" ">>, <<"a", " ">>}}
    \cup {[Request("UPDATE") EXCEPT !.idOk = FALSE]}

DeleteRequests ==
    {[Request("DELETE") EXCEPT !.id = i] : i \in PathIds}
    \cup {[Request("DELETE") EXCEPT !.idOk = FALSE]}

Requests ==
    GetRequests \cup SetParamsRequests \cup AddRequests \cup SubmitRequests
    \cup ClearRequests \cup UpdateRequests \cup DeleteRequests

(* the outcomes of _post_to_google_sheets *)
NotifierOutcomes ==
    { [ok |-> TRUE, reason |-> "ok"],
      [ok |-> FALSE, reason |-> "url_error"] }

NoOutcome == [ok |-> FALSE, reason |-> "none"]

(***************************************************************************)
(* The part of a handler that runs before it takes the lock: the cleaned   *)
(* name and hours, and the status of an early return (0: none).            *)
(***************************************************************************)
Locals(name, hours, mid) == [name |-> name, hours |-> hours, mid |-> mid]

NoLocals == Locals(<<>>, Num(0, 1), 0)

ParseStatus(r) ==
    IF r.op \in {"ADD", "SUBMIT"} /\ ~HoursConvertible(r.hours) THEN 400
    ELSE IF r.op \in {"UPDATE", "DELETE"} /\ ~r.idOk THEN 400
    ELSE 0

ParseLocals(r) ==
    IF r.op \in {"ADD", "SUBMIT"} /\ HoursConvertible(r.hours)
    THEN Locals(CleanName(r.name), ClampHours(r.hours), 0)
    ELSE NoLocals

(* the edit a handler makes between load and save *)
ModifyOp(state, r, l) ==
    CASE r.op = "SETPARAMS" -> SetParamsOp(state, r.body)
      [] r.op = "ADD" -> AddOp(state, l.name, l.hours)
      [] r.op = "SUBMIT" -> SubmitOp(state, l.name, l.hours)
      [] r.op = "CLEAR" -> ClearOp(state)
      [] r.op = "UPDATE" -> UpdateOp(state, r.id, r.hasName, r.name, r.hours)
      [] r.op = "DELETE" -> DeleteOp(state, r.id)
      [] OTHER -> Edit(state, 0, 0, <<>>)

(* the handler calls _ensure_next_id *)
IssuesId(state, r, l) ==
    \/ r.op = "ADD"
    \/ r.op = "SUBMIT" /\ FindByName(state.members, l.name) = 0

(***************************************************************************)
(* Responses.                                                              *)
(***************************************************************************)
Response(status, ok, uploaded, reason) ==
    [status |-> status, ok |-> ok, uploaded |-> uploaded, reason |-> reason]

NoResponse == Response(0, FALSE, FALSE, "")

SuccessStatus(op) == IF op = "ADD" THEN 201 ELSE 200

(* the notifier's failure is not reported in the status *)
SubmitStatus_Always200(uploaded) == 200

SubmitStatus(uploaded) == IF uploaded THEN 200 ELSE 202

SubmitResponse(o) ==
    Response(SubmitStatus(o.ok), TRUE, o.ok, IF ~o.ok THEN o.reason ELSE "")

(***************************************************************************)
(* State.                                                                  *)
(*   files   the files by path                                             *)
(*   lock    STATE_LOCK                                                    *)
(*   pc      each handler thread's position                                *)
(*   req     its request                                                   *)
(*   loc     its local variables name, hours, mid                          *)
(*   state   its in-memory document                                        *)
(*   ret     where its _save_state returns to                              *)
(*   gs      what _post_to_google_sheets returned to it                    *)
(*   resp    the response it sent                                          *)
(*   payload what _compute_response returned to it                         *)
(* History:                                                                *)
(*   snap    the document _load_state returned to it                       *)
(*   recovered  the threads whose _load_state regenerated the default      *)
(*   issued  the ids _ensure_next_id returned, in order                    *)
(*   deleted the ids whose member a DELETE removed, in order               *)
(*   serial  the document after the saved requests, run one at a time in   *)
(*           the order of their saves                                      *)
(*   nreq    the number of requests started                                *)
(***************************************************************************)
VARIABLES files, lock, pc, req, loc, state, ret, gs, resp, payload,
          snap, recovered, issued, deleted, serial, nreq

hist == <<recovered, issued, deleted, serial>>

vars == <<files, lock, pc, req, loc, state, ret, gs, resp, payload, snap, hist,
          nreq>>

InitialFiles == {FileAbsent, FileCorrupt, FileOf(DefaultState)}

Init ==
    /\ \E f \in InitialFiles :
          files = [q \in Paths |-> IF q = STATE_PATH THEN f ELSE FileAbsent]
    /\ lock = LockFree
    /\ pc = [t \in Threads |-> "idle"]
    /\ req = [t \in Threads |-> NoRequest]
    /\ loc = [t \in Threads |-> NoLocals]
    /\ state = [t \in Threads |-> NoDoc]
    /\ ret = [t \in Threads |-> "none"]
    /\ gs = [t \in Threads |-> NoOutcome]
    /\ resp = [t \in Threads |-> NoResponse]
    /\ payload = [t \in Threads |-> NoPayload]
    /\ snap = [t \in Threads |-> NoDoc]
    /\ recovered = {}
    /\ issued = <<>>
    /\ deleted = <<>>
    /\ serial = DefaultState
    /\ nreq = 0

(* where a handler goes after the code that precedes its lock scope *)
AfterParse(r) ==
    IF ParseStatus(r) # 0 THEN "done"
    ELSE IF r.op = "GET" THEN "load"
    ELSE "acquire"

(* a request of the set arrives; its handler runs up to its lock scope *)
StartOf(t, requests) ==
    /\ pc[t] = "idle"
    /\ nreq < MaxRequests
    /\ \E r \in requests :
          /\ req' = [req EXCEPT ![t] = r]
          /\ loc' = [loc EXCEPT ![t] = ParseLocals(r)]
          /\ resp' = [resp EXCEPT ![t] =
                         IF ParseStatus(r) # 0
                         THEN Response(ParseStatus(r), FALSE, FALSE, "")
                         ELSE NoResponse]
          /\ pc' = [pc EXCEPT ![t] = AfterParse(r)]
    /\ nreq' = nreq + 1
    /\ UNCHANGED <<payload, files, lock, state, ret, gs, snap, hist>>

Start(t) == StartOf(t, Requests)

(* with STATE_LOCK: of a handler *)
Acquire(t) ==
    /\ pc[t] = "acquire"
    /\ LockAvailable(lock, t)
    /\ lock' = Acquired(lock, t)
    /\ pc' = [pc EXCEPT ![t] = "load"]
    /\ UNCHANGED <<payload, files, req, loc, state, ret, gs, resp, snap, hist, nreq>>

AfterLoad(op) == IF op = "GET" THEN "compute" ELSE "modify"

(* _load_state when the file exists and parses *)
Load(t) ==
    /\ pc[t] = "load"
    /\ LockAvailable(lock, t)
    /\ Loadable(files[STATE_PATH])
    /\ state' = [state EXCEPT ![t] = files[STATE_PATH].doc]
    /\ snap' = [snap EXCEPT ![t] = files[STATE_PATH].doc]
    /\ pc' = [pc EXCEPT ![t] = AfterLoad(req[t].op)]
    /\ UNCHANGED <<payload, files, lock, req, loc, ret, gs, resp, hist, nreq>>

(* _load_state when it does not: the default document, which it saves *)
LoadDefault(t) ==
    /\ pc[t] = "load"
    /\ LockAvailable(lock, t)
    /\ ~Loadable(files[STATE_PATH])
    /\ lock' = Acquired(lock, t)
    /\ state' = [state EXCEPT ![t] = DefaultState]
    /\ ret' = [ret EXCEPT ![t] = "load_return"]
    /\ pc' = [pc EXCEPT ![t] = "save_open"]
    /\ recovered' = recovered \cup {t}
    /\ UNCHANGED <<payload, files, req, loc, gs, resp, snap, issued, deleted, serial, nreq>>

(* _load_state returns the default document it saved *)
LoadReturn(t) ==
    /\ pc[t] = "load_return"
    /\ lock' = Released(lock)
    /\ snap' = [snap EXCEPT ![t] = state[t]]
    /\ ret' = [ret EXCEPT ![t] = "none"]
    /\ pc' = [pc EXCEPT ![t] = AfterLoad(req[t].op)]
    /\ UNCHANGED <<payload, files, req, loc, state, gs, resp, hist, nreq>>

(* the early returns are missing: the edit is saved whatever its outcome *)
AfterModify_AlwaysSave(status) == "save_open"

(* where a handler goes after its edit *)
AfterModify(status) == IF status = 0 THEN "save_open" ELSE "release"

(* the edit between load and save, with its early returns *)
Modify(t) ==
    /\ pc[t] = "modify"
    /\ LET e == ModifyOp(state[t], req[t], loc[t])
       IN  /\ state' = [state EXCEPT ![t] = e.state]
           /\ loc' = [loc EXCEPT ![t] = Locals(IF req[t].op \in {"ADD", "SUBMIT"}
                                                 THEN e.name ELSE @.name,
                                               @.hours, e.mid)]
           /\ resp' = [resp EXCEPT ![t] =
                          IF e.status # 0
                          THEN Response(e.status, FALSE, FALSE, "")
                          ELSE @]
           /\ issued' = IF IssuesId(state[t], req[t], loc[t])
                        THEN Append(issued, e.mid)
                        ELSE issued
           /\ deleted' = IF req[t].op = "DELETE" /\ e.status = 0
                         THEN Append(deleted, req[t].id)
                         ELSE deleted
           /\ ret' = [ret EXCEPT ![t] = "compute"]
           /\ pc' = [pc EXCEPT ![t] = AfterModify(e.status)]
    /\ UNCHANGED <<payload, files, lock, req, gs, snap, recovered, serial, nreq>>

(* _save_state: takes the lock and opens the temporary file for writing *)
SaveOpen(t) ==
    /\ pc[t] = "save_open"
    /\ LockAvailable(lock, t)
    /\ lock' = Acquired(lock, t)
    /\ files' = Truncated(files, TmpPath(STATE_PATH))
    /\ pc' = [pc EXCEPT ![t] = "save_dump"]
    /\ UNCHANGED <<payload, req, loc, state, ret, gs, resp, snap, hist, nreq>>

(* _save_state: json.dump, and the file is closed *)
SaveDump(t) ==
    /\ pc[t] = "save_dump"
    /\ files' = Written(files, TmpPath(STATE_PATH), state[t])
    /\ pc' = [pc EXCEPT ![t] = "save_replace"]
    /\ UNCHANGED <<payload, lock, req, loc, state, ret, gs, resp, snap, hist, nreq>>

(* the whole request on a document, as one step *)
Handled(doc, r) ==
    IF ParseStatus(r) # 0 THEN doc
    ELSE LET e == ModifyOp(doc, r, ParseLocals(r))
         IN  IF e.status = 0 THEN e.state ELSE doc

(* _save_state: os.replace, and the lock is released *)
SaveReplace(t) ==
    /\ pc[t] = "save_replace"
    /\ files' = Replaced(files, TmpPath(STATE_PATH), STATE_PATH)
    /\ lock' = Released(lock)
    /\ serial' = IF ret[t] = "load_return" THEN DefaultState
                 ELSE Handled(serial, req[t])
    /\ pc' = [pc EXCEPT ![t] = ret[t]]
    /\ UNCHANGED <<payload, req, loc, state, ret, gs, resp, snap, recovered, issued, deleted, nreq>>

(* submit_and_add calls the notifier before its lock scope ends *)
AfterCompute_NotifyInLock(op) ==
    IF op = "GET" THEN "done" ELSE IF op = "SUBMIT" THEN "notify" ELSE "release"

AfterCompute(op) == IF op = "GET" THEN "done" ELSE "release"

(* _compute_response and, except in submit_and_add, the response *)
Compute(t) ==
    /\ pc[t] = "compute"
    /\ resp' = [resp EXCEPT ![t] =
                   IF ComputeRaises(state[t]) THEN Response(500, FALSE, FALSE, "")
                   ELSE IF req[t].op = "SUBMIT" THEN @
                   ELSE Response(SuccessStatus(req[t].op), FALSE, FALSE, "")]
    /\ payload' = [payload EXCEPT ![t] =
                      IF ComputeRaises(state[t]) THEN @
                      ELSE ComputeResponse(state[t])]
    /\ pc' = [pc EXCEPT ![t] = AfterCompute(req[t].op)]
    /\ UNCHANGED <<files, lock, req, loc, state, ret, gs, snap, hist, nreq>>

(* where a handler goes when it leaves its lock scope *)
AfterRelease(op, status) ==
    IF op = "SUBMIT" /\ status = 0 THEN "notify" ELSE "done"

(* the end of a handler's with STATE_LOCK: *)
Release(t) ==
    /\ pc[t] = "release"
    /\ lock' = Released(lock)
    /\ pc' = [pc EXCEPT ![t] = AfterRelease(req[t].op, resp[t].status)]
    /\ UNCHANGED <<payload, files, req, loc, state, ret, gs, resp, snap, hist, nreq>>

(* submit_and_add: _post_to_google_sheets *)
Notify(t) ==
    /\ pc[t] = "notify"
    /\ \E o \in NotifierOutcomes : gs' = [gs EXCEPT ![t] = o]
    /\ pc' = [pc EXCEPT ![t] = "respond"]
    /\ UNCHANGED <<payload, files, lock, req, loc, state, ret, resp, snap, hist, nreq>>

(* submit_and_add: the response *)
Respond(t) ==
    /\ pc[t] = "respond"
    /\ resp' = [resp EXCEPT ![t] = SubmitResponse(gs[t])]
    /\ pc' = [pc EXCEPT ![t] = "done"]
    /\ UNCHANGED <<payload, files, lock, req, loc, state, ret, gs, snap, hist, nreq>>

(* the handler thread ends *)
Finish(t) ==
    /\ pc[t] = "done"
    /\ pc' = [pc EXCEPT ![t] = "idle"]
    /\ req' = [req EXCEPT ![t] = NoRequest]
    /\ loc' = [loc EXCEPT ![t] = NoLocals]
    /\ state' = [state EXCEPT ![t] = NoDoc]
    /\ ret' = [ret EXCEPT ![t] = "none"]
    /\ gs' = [gs EXCEPT ![t] = NoOutcome]
    /\ resp' = [resp EXCEPT ![t] = NoResponse]
    /\ payload' = [payload EXCEPT ![t] = NoPayload]
    /\ snap' = [snap EXCEPT ![t] = NoDoc]
    /\ recovered' = recovered \ {t}
    /\ UNCHANGED <<files, lock, issued, deleted, serial, nreq>>

Next ==
    \E t \in Threads :
        \/ Start(t)
        \/ Acquire(t)
        \/ Load(t)
        \/ LoadDefault(t)
        \/ LoadReturn(t)
        \/ Modify(t)
        \/ SaveOpen(t)
        \/ SaveDump(t)
        \/ SaveReplace(t)
        \/ Compute(t)
        \/ Release(t)
        \/ Notify(t)
        \/ Respond(t)
        \/ Finish(t)

Spec == Init /\ [][Next]_vars

(***************************************************************************)
(* The process is killed and started again: the handler threads and the    *)
(* lock are gone, the files stay as they are.                              *)
(***************************************************************************)
Crash ==
    /\ \E t \in Threads : pc[t] # "idle"
    /\ lock' = LockFree
    /\ pc' = [t \in Threads |-> "idle"]
    /\ req' = [t \in Threads |-> NoRequest]
    /\ loc' = [t \in Threads |-> NoLocals]
    /\ state' = [t \in Threads |-> NoDoc]
    /\ ret' = [t \in Threads |-> "none"]
    /\ gs' = [t \in Threads |-> NoOutcome]
    /\ resp' = [t \in Threads |-> NoResponse]
    /\ payload' = [t \in Threads |-> NoPayload]
    /\ snap' = [t \in Threads |-> NoDoc]
    /\ recovered' = {}
    /\ UNCHANGED <<files, issued, deleted, serial, nreq>>

NextCrash == Next \/ Crash

SpecCrash == Init /\ [][NextCrash]_vars

(***************************************************************************)
(* Properties.                                                             *)
(***************************************************************************)
Ids(members) == {members[i].id : i \in 1..Len(members)}

Persisted == files[STATE_PATH]

SeedIds == {1, 2, 3}

SavePositions == {"save_open", "save_dump", "save_replace"}

(* a handler is between its edit and the end of its lock scope *)
EditedInLock(t) ==
    ret[t] = "compute" /\ pc[t] \in SavePositions \cup {"compute", "release"}

(* a handler is in its lock scope, or in the lock scope of its _load_state *)
InCycle(t) ==
    \/ pc[t] \in SavePositions \cup {"load_return", "modify", "release"}
    \/ pc[t] \in {"load", "compute"} /\ req[t].op # "GET"

(* C1: every id issued by Add or by an inserting Upsert is strictly greater
   than every id issued before it and than the seed ids, whatever was
   deleted or cleared in between; no id is issued twice. *)
C1_IssuedIdsStrictlyIncrease ==
    /\ \A i, j \in 1..Len(issued) : i < j => issued[i] < issued[j]
    /\ \A i \in 1..Len(issued) : \A k \in SeedIds : issued[i] > k

(* an Add was issued id 5 from a document that no longer had member 4,
   which had been issued before *)
C1_Witness ==
    /\ issued = <<4, 5>>
    /\ \E t \in Threads :
          /\ req[t].op = "ADD"
          /\ pc[t] = "release"
          /\ loc[t].mid = 5
          /\ 4 \notin Ids(snap[t].members)

(* C2: a handler is between its load and the end of its save only while it
   owns the lock; the persisted document is the result of running the saved
   requests one at a time in the order of their saves; concurrent Adds get
   distinct ids, each greater than every id of the document they loaded. *)
C2_LoadModifySaveSerialized ==
    /\ \A t \in Threads : InCycle(t) => lock.owner = t
    /\ Loadable(Persisted) => Persisted.doc = serial
    /\ Cardinality({issued[i] : i \in 1..Len(issued)}) = Len(issued)
    /\ \A t \in Threads :
          EditedInLock(t) /\ req[t].op = "ADD"
              => \A k \in Ids(snap[t].members) : loc[t].mid > k

(* two Adds in flight at once: one waits for the lock while the other, which
   owns it, is writing the document with the id it was issued *)
C2_Witness ==
    \E t1, t2 \in Threads :
        /\ t1 # t2
        /\ req[t1].op = "ADD" /\ req[t2].op = "ADD"
        /\ pc[t1] = "acquire"
        /\ pc[t2] = "save_replace"
        /\ lock.owner = t2
        /\ Len(issued) >= 1

C3_DocumentOk(doc) ==
    /\ \A i, j \in 1..Len(doc.members) :
          i # j => doc.members[i].id # doc.members[j].id
    /\ \A i \in 1..Len(doc.members) : doc.nextId > doc.members[i].id

(* C3: in every persisted document the member ids are pairwise distinct and
   nextId is greater than each of them, and nextId never decreases from one
   persisted document to the next. *)
C3_PersistedIdsDistinctBelowNextId ==
    /\ [](Loadable(Persisted) => C3_DocumentOk(Persisted.doc))
    /\ [][Loadable(Persisted) /\ Loadable(Persisted')
             => Persisted'.doc.nextId >= Persisted.doc.nextId]_vars

(* a persisted document whose counter has moved on while members left it *)
C3_Witness ==
    /\ Loadable(Persisted)
    /\ Persisted.doc.nextId = 6
    /\ Ids(Persisted.doc.members) = {1, 2, 3, 5}

(* C4: the canonical file never holds a partially written document: every
   change of it installs a complete document, the one the writer had finished
   in the temporary file, so at every moment of a save, and after a kill at
   any step of it, the canonical file is what it was before or the complete
   new document. *)
C4_SaveIsAtomic ==
    /\ [](Persisted.kind # "partial")
    /\ [](Loadable(Persisted) => Persisted.doc = serial)
    /\ [][Persisted' # Persisted
             => /\ Loadable(Persisted')
                /\ Persisted' = files[TmpPath(STATE_PATH)]
                /\ \E t \in Threads :
                      pc[t] = "save_replace" /\ Persisted' = FileOf(state[t])]_vars

(* the process was killed while a writer had the temporary file open: the
   half-written file is left behind, the canonical file is a complete
   document *)
C4_Witness ==
    /\ files[TmpPath(STATE_PATH)].kind = "partial"
    /\ \A t \in Threads : pc[t] = "idle"
    /\ Loadable(Persisted)
    /\ Len(Persisted.doc.members) = 4

(* the positions of a handler after its _load_state has returned *)
Loaded == {"modify", "compute", "release", "notify", "respond"}

(* the status of the error a request ends in on a document; 0 if none *)
ErrorOn(doc, r) ==
    IF ParseStatus(r) # 0 THEN ParseStatus(r)
    ELSE LET e == ModifyOp(doc, r, ParseLocals(r))
         IN  IF e.status # 0 THEN e.status
             ELSE IF ComputeRaises(e.state) THEN 500
             ELSE 0

C5_IsDefault(doc) ==
    /\ doc.S = Num(600, 1) /\ doc.p = Num(1, 2)
    /\ doc.c = Num(9, 200) /\ doc.H = Num(150, 1)
    /\ doc.nextId = 4
    /\ Len(doc.members) = 3
    /\ \A i \in 1..3 : doc.members[i].id = i

(* C5: when state.json is absent or unparsable, _load_state returns the
   default document (S=600, p=0.5, c=0.045, H=150, members 1..3, nextId=4)
   and has written it as the canonical document when it returns; no error
   comes of it: the request ends as it would on a store that held the
   default document, a GET with status 200. *)
C5_LoadRecoversDefault ==
    \A t \in Threads :
        /\ pc[t] = "load_return"
              => /\ C5_IsDefault(state[t])
                 /\ Persisted = FileOf(state[t])
                 /\ resp[t] = NoResponse
        /\ pc[t] \in Loaded => Loadable(Persisted) /\ snap[t] # NoDoc
        /\ t \in recovered /\ pc[t] \in Loaded => C5_IsDefault(snap[t])
        /\ t \in recovered /\ pc[t] = "done"
              => /\ resp[t].status # 0
                 /\ resp[t].status >= 400 <=> ErrorOn(snap[t], req[t]) # 0
                 /\ req[t].op = "GET" => resp[t].status = 200

(* a GET that found no loadable state.json has answered 200 and the default
   document is on disk *)
C5_Witness ==
    \E t \in Threads :
        /\ t \in recovered
        /\ req[t].op = "GET"
        /\ pc[t] = "done"
        /\ resp[t].status = 200
        /\ C5_IsDefault(Persisted.doc)

SameParams(a, b) == a.S = b.S /\ a.p = b.p /\ a.c = b.c /\ a.H = b.H

(* a handler has made its edit *)
Edited(t) == ret[t] = "compute"

(* a submit_and_add has made its edit *)
SubmitEdited(t) == req[t].op = "SUBMIT" /\ Edited(t)

(* the members of a document whose trimmed name is the name *)
NameMatches(doc, name) ==
    {i \in 1..Len(doc.members) : Strip(doc.members[i].name) = name}

(* C6: submit_and_add with a non-empty trimmed name that an existing member
   has overwrites the hours of the first such member and nothing else: count
   and order of the members, every other member, that member's id and name,
   nextId and the parameters stay; with no such member it appends one member
   with the id the counter held and advances the counter. *)
C6_UpsertOverwritesOnlyHours ==
    \A t \in Threads : SubmitEdited(t) =>
        LET old == snap[t]
            new == state[t]
            name == CleanName(req[t].name)
            hits == IF name = <<>> THEN {} ELSE NameMatches(old, name)
            n == Len(old.members)
        IN  /\ SameParams(old, new)
            /\ pc[t] \in {"compute", "release"} => Persisted = FileOf(new)
            /\ hits # {} =>
                  /\ Len(new.members) = n
                  /\ new.nextId = old.nextId
                  /\ \E i \in hits :
                        /\ \A j \in hits : i <= j
                        /\ new.members[i].id = old.members[i].id
                        /\ new.members[i].name = old.members[i].name
                        /\ new.members[i].hours = ClampHours(req[t].hours)
                        /\ \A j \in 1..n : j # i => new.members[j] = old.members[j]
            /\ hits = {} =>
                  /\ Len(new.members) = n + 1
                  /\ new.nextId = old.nextId + 1
                  /\ \A j \in 1..n : new.members[j] = old.members[j]
                  /\ new.members[n + 1].id = old.nextId
                  /\ new.members[n + 1].hours = ClampHours(req[t].hours)
                  /\ new.members[n + 1].name =
                        IF name = <<>> THEN PlaceholderName(old.nextId) ELSE name

(* an upsert by a name that two members have has saved its edit *)
C6_Witness ==
    \E t \in Threads :
        /\ SubmitEdited(t)
        /\ pc[t] = "release"
        /\ Cardinality(NameMatches(snap[t], CleanName(req[t].name))) >= 2
        /\ state[t] # snap[t]

(* C7: submit_and_add has saved its document when it leaves its lock scope
   for the notifier; the notifier call and the response change no file; the
   response has ok = true, uploaded = the notifier's result, and status 200
   when that is success, 202 when it is failure. *)
C7_NotifierAfterSaveNeverAffectsIt ==
    /\ [](\A t \in Threads :
             /\ pc[t] \in {"notify", "respond"} => SubmitEdited(t)
             /\ pc[t] = "done" /\ gs[t] # NoOutcome
                   => /\ resp[t].ok
                      /\ resp[t].uploaded = gs[t].ok
                      /\ gs[t].ok => resp[t].status = 200
                      /\ ~gs[t].ok => resp[t].status = 202)
    /\ [][\A t \in Threads :
             /\ pc[t] # "notify" /\ pc'[t] = "notify"
                   => Persisted = FileOf(state[t]) /\ files' = files
             /\ pc[t] \in {"notify", "respond"} /\ pc'[t] # pc[t]
                   => files' = files]_vars

(* the notifier failed: the response is 202 with uploaded = false, and the
   member the request appended is in the persisted document *)
C7_Witness ==
    \E t \in Threads :
        /\ req[t].op = "SUBMIT"
        /\ pc[t] = "done"
        /\ ~gs[t].ok /\ gs[t] # NoOutcome
        /\ resp[t].status = 202
        /\ \E i \in 1..Len(Persisted.doc.members) :
              /\ Persisted.doc.members[i].id = loc[t].mid
              /\ Persisted.doc.members[i].hours = Num(9, 1)
              /\ loc[t].mid = 4

(* C8: a request that ends in 400 or 404 changes no file: one that fails
   before its lock scope writes nothing, and one that fails inside it returns
   at once, with the canonical file still the document it loaded (members,
   nextId, parameters), although an Update may have renamed the member in
   memory; it issues no id. *)
C8_ErrorsChangeNothing ==
    /\ [](\A t \in Threads : resp[t].status \in {400, 404} =>
             /\ pc[t] \in {"release", "done"}
             /\ pc[t] = "release" => Persisted = FileOf(snap[t]))
    /\ [][\A t \in Threads :
             resp'[t].status \in {400, 404} /\ pc'[t] # pc[t]
                 => files' = files /\ issued' = issued]_vars

(* an Update with a name and non-numeric hours for a member that exists is
   answered 400: the name is changed in memory and not in the file *)
C8_Witness ==
    \E t \in Threads :
        /\ req[t].op = "UPDATE"
        /\ pc[t] = "release"
        /\ resp[t].status = 400
        /\ state[t] # snap[t]
        /\ Persisted = FileOf(snap[t])

(* C9: Clear empties the member list and leaves nextId and the parameters
   as they were; an Add on a cleared document is issued an id greater than
   every id issued before and than the seed ids. *)
C9_ClearKeepsCounterAndParams ==
    \A t \in Threads :
        /\ req[t].op = "CLEAR" /\ Edited(t)
              => /\ state[t].members = <<>>
                 /\ state[t].nextId = snap[t].nextId
                 /\ SameParams(state[t], snap[t])
                 /\ pc[t] \in {"compute", "release"} => Persisted = FileOf(state[t])
        /\ req[t].op = "ADD" /\ EditedInLock(t) /\ snap[t].members = <<>>
              => /\ issued # <<>>
                 /\ issued[Len(issued)] = loc[t].mid
                 /\ \A i \in 1..(Len(issued) - 1) : issued[i] < loc[t].mid
                 /\ \A k \in SeedIds : k < loc[t].mid
                 /\ state[t].members = <<Member(loc[t].mid, loc[t].name, loc[t].hours)>>

(* an Add on a cleared document, after an earlier Add, has saved *)
C9_Witness ==
    \E t \in Threads :
        /\ req[t].op = "ADD"
        /\ pc[t] = "release"
        /\ snap[t].members = <<>>
        /\ issued = <<4, 5>>
        /\ Persisted.doc.nextId = 6

(* new is old without the elements at the positions gone, in old's order *)
RECURSIVE Without(_, _, _)
Without(old, gone, i) ==
    IF i > Len(old) THEN <<>>
    ELSE (IF i \in gone THEN <<>> ELSE <<old[i]>>) \o Without(old, gone, i + 1)

(* C10: Delete of an id that is present removes exactly the member with that
   id, keeping the others in their order, nextId and the parameters; Delete
   of an id that is not present answers 404 and edits nothing; no id is
   deleted twice, so a Delete that follows a successful Delete of the same id
   answers 404. *)
C10_DeleteRemovesExactlyOne ==
    /\ \A i, j \in 1..Len(deleted) : i # j => deleted[i] # deleted[j]
    /\ \A t \in Threads : req[t].op = "DELETE" /\ Edited(t) =>
          LET old == snap[t]
              new == state[t]
              at == {i \in 1..Len(old.members) : old.members[i].id = req[t].id}
          IN  /\ SameParams(old, new)
              /\ new.nextId = old.nextId
              /\ at # {} =>
                    /\ Cardinality(at) = 1
                    /\ new.members = Without(old.members, at, 1)
                    /\ Len(new.members) = Len(old.members) - 1
                    /\ resp[t].status # 404
                    /\ \E i \in 1..Len(deleted) : deleted[i] = req[t].id
                    /\ pc[t] \in {"compute", "release"} => Persisted = FileOf(new)
              /\ at = {} =>
                    /\ resp[t].status = 404
                    /\ new = old
                    /\ pc[t] = "release" => Persisted = FileOf(old)

(* the second Delete of member 2 is answered 404 *)
C10_Witness ==
    \E t \in Threads :
        /\ req[t].op = "DELETE"
        /\ req[t].id = 2
        /\ pc[t] = "release"
        /\ resp[t].status = 404
        /\ deleted = <<2>>

(***************************************************************************)
(* The requests that exercise the cleaning of hours.                       *)
(***************************************************************************)
HoursInputs ==
    {Num(-5, 1), NaN, Inf, Num(20000000, 1), Num(5, 2), Null, Absent, Str}

HoursRequests ==
    {[Request("ADD") EXCEPT !.hasName = TRUE, !.name = <<"a">>, !.hours = h] :
        h \in HoursInputs}
    \cup {[Request("SUBMIT") EXCEPT !.hasName = TRUE, !.name = <<"Li", "Si">>,
                                    !.hours = h] : h \in HoursInputs}
    \cup {[Request("UPDATE") EXCEPT !.id = 2, !.hours = h] : h \in HoursInputs}
    \cup {[Request("DELETE") EXCEPT !.id = 2]}
    \cup GetRequests \cup ClearRequests
    \cup {[Request("SETPARAMS") EXCEPT !.body = [NoBody EXCEPT !.S = Num(700, 1)]]}

StartHours(t) == StartOf(t, HoursRequests)

NextHours ==
    \E t \in Threads :
        \/ StartHours(t)
        \/ Acquire(t)
        \/ Load(t)
        \/ LoadDefault(t)
        \/ LoadReturn(t)
        \/ Modify(t)
        \/ SaveOpen(t)
        \/ SaveDump(t)
        \/ SaveReplace(t)
        \/ Compute(t)
        \/ Release(t)
        \/ Notify(t)
        \/ Respond(t)
        \/ Finish(t)

SpecHours == Init /\ [][NextHours]_vars

(* the hours of the member with the id; Absent if there is none *)
HoursOf(doc, id) ==
    IF FindById(doc.members, id) = 0 THEN Absent
    ELSE doc.members[FindById(doc.members, id)].hours

(* the handler's edit went on to _save_state *)
Saving(t) == ret[t] = "compute" /\ pc[t] \in SavePositions \cup {"compute"}

(* the handler's _save_state has returned *)
Saved(t) == ret[t] = "compute" /\ pc[t] = "compute"

HoursOps == {"ADD", "SUBMIT", "UPDATE"}

C11_Inputs == {Num(-5, 1), NaN, Inf, Num(20000000, 1)}

C11_Stored(raw) == IF raw = Num(20000000, 1) THEN Num(10000000, 1) ELSE Num(0, 1)

(* Add and submit_and_add store 0, 0 and 10000000 for -5, a non-finite value
   and 20000000 *)
C11_Coercing(t) ==
    req[t].op \in {"ADD", "SUBMIT"} /\ req[t].hours \in C11_Inputs
        => /\ resp[t].status \notin {400, 404}
           /\ Saving(t) => HoursOf(state[t], loc[t].mid) = C11_Stored(req[t].hours)
           /\ Saved(t) => HoursOf(Persisted.doc, loc[t].mid) = C11_Stored(req[t].hours)

(* C11 as stated: Hours inputs -5, a non-finite value and 20000000 are stored
   as 0, 0 and 10000000 by Add and submit_and_add, and are rejected with an
   error, with no stored value, by Update by id. *)
C11_UpdateRejectsOutOfRange ==
    \A t \in Threads :
        /\ C11_Coercing(t)
        /\ req[t].op = "UPDATE" /\ req[t].hours \in C11_Inputs
              => /\ ~Saving(t)
                 /\ pc[t] = "done" => resp[t].status \in {400, 404}

(* C11, amended: Hours inputs -5, a non-finite value and 20000000 are stored
   as 0, 0 and 10000000 by Add, by submit_and_add and by Update by id alike;
   the only hours value any of the three rejects, with status 400 and nothing
   saved, is one that does not convert to a number. *)
C11_HoursClampedOnEveryEndpoint ==
    \A t \in Threads :
        /\ C11_Coercing(t)
        /\ req[t].op = "UPDATE" /\ req[t].hours \in C11_Inputs
              => /\ resp[t].status # 400
                 /\ Saving(t) => HoursOf(state[t], req[t].id) = C11_Stored(req[t].hours)
                 /\ Saved(t) => HoursOf(Persisted.doc, req[t].id) = C11_Stored(req[t].hours)
        /\ req[t].op \in HoursOps /\ req[t].hours = Str
              => /\ ~Saving(t)
                 /\ pc[t] = "done" => resp[t].status \in {400, 404}

(* an Update with hours 20000000 has saved 10000000 for its member *)
C11_Witness ==
    \E t \in Threads :
        /\ req[t].op = "UPDATE"
        /\ req[t].hours = Num(20000000, 1)
        /\ Saved(t)
        /\ HoursOf(snap[t], 2) = Num(8, 1)
        /\ HoursOf(Persisted.doc, 2) = Num(10000000, 1)

(* a finite number in [0, 10000000] *)
C12_HoursOk(h) == h.t = "num" /\ h.d > 0 /\ h.n >= 0 /\ h.n <= 10000000 * h.d

(* C12: in every persisted document, every member's hours is a finite number
   in the closed range [0, 10000000], whatever hours values the requests
   supplied (negative, non-finite, null, above the cap, or absent). *)
C12_PersistedHoursInRange ==
    Loadable(Persisted)
        => \A i \in 1..Len(Persisted.doc.members) :
               C12_HoursOk(Persisted.doc.members[i].hours)

(* an Update with NaN has saved 0 for member 2, in a document that already
   held a member added with hours above the cap *)
C12_Witness ==
    \E t \in Threads :
        /\ req[t].op = "UPDATE"
        /\ req[t].hours = NaN
        /\ Saved(t)
        /\ HoursOf(Persisted.doc, 2) = Num(0, 1)
        /\ HoursOf(Persisted.doc, 4) = Num(10000000, 1)

(***************************************************************************)
(* The requests that exercise the parameters and _compute_response.        *)
(***************************************************************************)
ParamsBodies ==
    { NoBody,
      [NoBody EXCEPT !.S = Num(700, 1), !.c = Num(0, 1), !.H = Num(150, 1)],
      [NoBody EXCEPT !.c = Num(9, 200), !.H = Num(0, 1)],
      [NoBody EXCEPT !.p = Null],
      [NoBody EXCEPT !.H = Str] }

ParamsRequests ==
    {[Request("SETPARAMS") EXCEPT !.body = b] : b \in ParamsBodies}
    \cup GetRequests
    \cup {[Request("SUBMIT") EXCEPT !.hasName = TRUE, !.name = <<"a">>,
                                    !.hours = Num(5, 2)]}

StartParams(t) == StartOf(t, ParamsRequests)

NextParams ==
    \E t \in Threads :
        \/ StartParams(t)
        \/ Acquire(t)
        \/ Load(t)
        \/ LoadDefault(t)
        \/ LoadReturn(t)
        \/ Modify(t)
        \/ SaveOpen(t)
        \/ SaveDump(t)
        \/ SaveReplace(t)
        \/ Compute(t)
        \/ Release(t)
        \/ Notify(t)
        \/ Respond(t)
        \/ Finish(t)

SpecParams == Init /\ [][NextParams]_vars

(* _compute_response has returned to the handler *)
HasPayload(t) == payload[t] # NoPayload

(* k is the least integer that is at least n / d, for d > 0 *)
C13_IsCeil(k, n, d) == k * d >= n /\ (k - 1) * d < n

C13_Positive(v) == v.t = "num" /\ v.n > 0 /\ v.d > 0

(* C13: for a document with positive S, p, c and H, the payload has
   R = ceil((S*p)/(c*H)) and, for each member, g = ceil(hours*R) and
   v = ceil(g*c), each ceiling taken before the next product; for S=600,
   p=0.5, c=0.045, H=150 it has R=45, and a member with hours=5 has g=225 and
   v=11. *)
C13_ComputeCeilings ==
    \A t \in Threads :
        LET doc == state[t]
            out == payload[t]
        IN  (HasPayload(t)
                /\ (\A x \in {doc.S, doc.p, doc.c, doc.H} : C13_Positive(x)))
            => /\ C13_IsCeil(out.R, doc.S.n * doc.p.n * doc.c.d * doc.H.d,
                                    doc.S.d * doc.p.d * doc.c.n * doc.H.n)
               /\ Len(out.members) = Len(doc.members)
               /\ \A i \in 1..Len(doc.members) :
                     LET h == doc.members[i].hours
                         e == out.members[i]
                     IN  /\ e.id = doc.members[i].id
                         /\ e.hours = h
                         /\ C13_IsCeil(e.g, h.n * out.R, h.d)
                         /\ C13_IsCeil(e.v, e.g * doc.c.n, doc.c.d)
               /\ SameParams(doc, DefaultState)
                     => /\ out.R = 45
                        /\ \A i \in 1..Len(doc.members) :
                              out.members[i].hours = Num(5, 1)
                                  => out.members[i].g = 225 /\ out.members[i].v = 11

(* the payload for the default parameters, with the seed member of 5 hours
   and a member of 2.5 hours that submit_and_add appended *)
C13_Witness ==
    \E t \in Threads :
        /\ HasPayload(t)
        /\ SameParams(state[t], DefaultState)
        /\ payload[t].R = 45
        /\ Len(payload[t].members) = 4
        /\ payload[t].members[1].hours = Num(5, 1)
        /\ payload[t].members[1].g = 225
        /\ payload[t].members[1].v = 11
        /\ payload[t].members[4].hours = Num(5, 2)
        /\ payload[t].members[4].g = 113
        /\ payload[t].members[4].v = 6

(* C14: when the stored c is 0, the floor replaces c only in the denominator
   of the ratio: each member's value is ceil(g * c) with the stored c, so 0;
   the payload reports c, S, p and H as the document has them; the persisted
   c is left unchanged. *)
C14_FloorOnlyInDenominator ==
    \A t \in Threads :
        HasPayload(t) /\ state[t].c = Num(0, 1)
            => /\ payload[t].c = state[t].c
               /\ (\A x \in {state[t].S, state[t].p, state[t].H} :
                      C13_Positive(x))
                  => /\ payload[t].S = state[t].S
                     /\ payload[t].p = state[t].p
                     /\ payload[t].H = state[t].H
               /\ \A i \in 1..Len(payload[t].members) : payload[t].members[i].v = 0
               /\ Loadable(Persisted) /\ lock.owner = t => Persisted.doc.c = Num(0, 1)

(* what the code does instead: the floor is the c of the payload and of every
   value, while the persisted c stays 0 *)
C14_FloorReplacesC ==
    \A t \in Threads :
        HasPayload(t) /\ state[t].c = Num(0, 1)
            => /\ payload[t].c = MinC
               /\ \A i \in 1..Len(payload[t].members) :
                     C13_IsCeil(payload[t].members[i].v,
                                payload[t].members[i].g * MinC.n, MinC.d)
               /\ Loadable(Persisted) /\ lock.owner = t => Persisted.doc.c = Num(0, 1)

(* a payload computed from a stored c of 0: c is reported as 0.000001 and the
   member with 5 hours has the value 12 *)
C14_Witness ==
    \E t \in Threads :
        /\ HasPayload(t)
        /\ req[t].op = "SETPARAMS"
        /\ pc[t] = "release"
        /\ state[t].c = Num(0, 1)
        /\ Persisted.doc.c = Num(0, 1)
        /\ payload[t].c = MinC
        /\ payload[t].R = 2333334
        /\ payload[t].members[1].g = 11666670
        /\ payload[t].members[1].v = 12

(* C15: a parameter update has no failure outcome: for every body it
   responds 200 with the recomputed payload, and after any sequence of
   parameter updates every later GET /api/state also responds 200 with a
   payload. *)
C15_ParamsNeverFail ==
    \A t \in Threads :
        req[t].op \in {"SETPARAMS", "GET"} /\ pc[t] = "done"
            => resp[t].status = 200 /\ HasPayload(t)

(* a GET that ended without a response, _compute_response having raised on
   the parameter a parameter update had saved *)
C15_Witness ==
    \E t \in Threads :
        /\ req[t].op = "GET"
        /\ pc[t] = "done"
        /\ resp[t].status = 500
        /\ ~HasPayload(t)
        /\ state[t].H = Str
        /\ Persisted.doc.H = Str

C16_Keys == {"S", "p", "c", "H"}

(* C16: a parameter update changes exactly the parameters that the body
   supplies, each to the supplied value: every parameter not supplied, the
   member list and nextId are as loaded, and an empty or malformed body
   (which _parse_json turns into the empty one) changes nothing; the
   document saved is that one. *)
C16_ParamsUpdateIsPartial ==
    \A t \in Threads :
        req[t].op = "SETPARAMS" /\ Saving(t)
            => /\ state[t].members = snap[t].members
               /\ state[t].nextId = snap[t].nextId
               /\ \A k \in C16_Keys :
                     state[t][k] = IF req[t].body[k] = Absent THEN snap[t][k]
                                   ELSE req[t].body[k]
               /\ req[t].body = NoBody => state[t] = snap[t]
               /\ Saved(t) => Persisted.doc = state[t]

(* a parameter update of c and H has been saved over a document whose S an
   earlier update had set and that has a fourth member *)
C16_Witness ==
    \E t \in Threads :
        /\ req[t].op = "SETPARAMS"
        /\ req[t].body = [NoBody EXCEPT !.c = Num(9, 200), !.H = Num(0, 1)]
        /\ Saved(t)
        /\ snap[t].c = Num(0, 1)
        /\ Persisted.doc.S = Num(700, 1)
        /\ Persisted.doc.c = Num(9, 200)
        /\ Persisted.doc.H = Num(0, 1)
        /\ Len(Persisted.doc.members) = 4

(* the handler is calling the notifier or has its result *)
Notifying(t) == pc[t] \in {"notify", "respond"}

(* C17 as stated: in submit_and_add the notifier call is made while the
   request still holds the lock it acquired for the load-modify-save, so
   while the call is in progress no other mutating request is in its own
   load-modify-save. *)
C17_NotifierCalledInsideLock ==
    \A t \in Threads :
        pc[t] = "notify"
            => /\ lock.owner = t
               /\ \A u \in Threads \ {t} : ~InCycle(u)

(* C17, amended: in submit_and_add the notifier call is made after the
   request has left the lock scope of its load-modify-save: the request does
   not hold the lock during the call, and a mutating request that waits for
   the lock while the call is in progress can take it as soon as no other
   request holds it. *)
C17_NotifierCalledOutsideLock ==
    \A t \in Threads :
        Notifying(t)
            => /\ lock.owner # t
               /\ \A u \in Threads \ {t} :
                     pc[u] = "acquire" /\ lock.owner = 0 => ENABLED Acquire(u)

(* while one request's notifier call is in progress, another request has
   taken the lock and is replacing the document *)
C17_Witness ==
    \E t, u \in Threads :
        /\ t # u
        /\ pc[t] = "notify"
        /\ req[u].op = "SETPARAMS"
        /\ pc[u] = "save_replace"
        /\ ret[u] = "compute"
        /\ lock.owner = u

(***************************************************************************)
(* The requests that exercise the lock: early returns inside the lock      *)
(* scope, the nested acquisitions of _load_state and _save_state, and the  *)
(* notifier.  Every handler thread that can take a step eventually takes   *)
(* one; the number of requests is bounded, so a thread that waits for the  *)
(* lock finds it free from some point on.                                  *)
(***************************************************************************)
LockRequests ==
    GetRequests
    \cup {[Request("UPDATE") EXCEPT !.id = 2, !.hasName = TRUE,
                                    !.name = <<"a">>, !.hours = Str],
          [Request("UPDATE") EXCEPT !.id = 2, !.hours = Num(3, 1)],
          [Request("UPDATE") EXCEPT !.idOk = FALSE],
          [Request("DELETE") EXCEPT !.id = 2],
          [Request("SUBMIT") EXCEPT !.hasName = TRUE, !.name = <<"a">>,
                                    !.hours = Num(9, 1)]}

StartLock(t) == StartOf(t, LockRequests)

(* a step of a handler thread *)
Step(t) ==
    \/ Acquire(t)
    \/ Load(t)
    \/ LoadDefault(t)
    \/ LoadReturn(t)
    \/ Modify(t)
    \/ SaveOpen(t)
    \/ SaveDump(t)
    \/ SaveReplace(t)
    \/ Compute(t)
    \/ Release(t)
    \/ Notify(t)
    \/ Respond(t)
    \/ Finish(t)

NextLock == \E t \in Threads : StartLock(t) \/ Step(t)

SpecFair ==
    Init /\ [][NextLock]_vars /\ \A t \in Threads : WF_vars(Step(t))

(* C18: under fair scheduling and a notifier that always returns, every
   request eventually finishes with a response, and the lock is eventually
   released on every path, the 400 and 404 early returns inside the lock
   scope and the nested acquisitions of load and save included: a thread
   that has finished holds no lock, and whenever the lock is held it
   becomes free again. *)
C18_EveryRequestFinishes ==
    /\ \A t \in Threads :
          (pc[t] # "idle") ~> (pc[t] = "done" /\ resp[t].status # 0)
    /\ \A t \in Threads : (lock.owner = t) ~> (lock = LockFree)
    /\ [](\A t \in Threads : pc[t] \in {"idle", "done"} => lock.owner # t)

(* an Update whose _load_state regenerated the document (nested
   acquisitions up to depth three) took the 400 early return inside the lock
   scope and has finished, and the lock is free *)
C18_Witness ==
    \E t \in Threads :
        /\ req[t].op = "UPDATE"
        /\ t \in recovered
        /\ pc[t] = "done"
        /\ resp[t].status = 400
        /\ lock = LockFree

(* the ids of a member list, in its order *)
IdSeq(members) == [i \in 1..Len(members) |-> members[i].id]

C19_Increasing(ids) == \A i, j \in 1..Len(ids) : i < j => ids[i] < ids[j]

(* C19: in every document, loaded, edited or persisted, the member list is
   in strictly increasing id order: Add and an inserting Upsert append at the
   end, Update and an overwriting Upsert leave every member at its place,
   and Delete keeps the order of the remaining members. *)
C19_MembersInIdOrder ==
    /\ Loadable(Persisted) => C19_Increasing(IdSeq(Persisted.doc.members))
    /\ \A t \in Threads :
          LET old == IdSeq(snap[t].members)
              new == IdSeq(state[t].members)
          IN  /\ C19_Increasing(new)
              /\ Saving(t) =>
                    CASE req[t].op = "ADD" -> new = Append(old, loc[t].mid)
                      [] req[t].op = "SUBMIT" ->
                            IF FindByName(snap[t].members, CleanName(req[t].name)) # 0
                            THEN new = old
                            ELSE new = Append(old, loc[t].mid)
                      [] req[t].op = "UPDATE" -> new = old
                      [] req[t].op = "DELETE" ->
                            new = SelectSeq(old, LAMBDA i : i # req[t].id)
                      [] req[t].op = "CLEAR" -> new = <<>>
                      [] OTHER -> new = old

(* an Add has appended id 5 to a list from which member 2 had been deleted
   and to which member 4 had been added *)
C19_Witness ==
    \E t \in Threads :
        /\ req[t].op = "ADD"
        /\ Saved(t)
        /\ IdSeq(snap[t].members) = <<1, 3, 4>>
        /\ IdSeq(Persisted.doc.members) = <<1, 3, 4, 5>>

(* C20: a submit_and_add whose name is empty after trimming never matches an
   existing member, even when a member with an empty stored name exists: it
   consumes a new id and appends to the loaded list one member with that id,
   named with the placeholder built from it, so the member count grows by
   one. *)
C20_EmptyNameAlwaysInserts ==
    \A t \in Threads :
        req[t].op = "SUBMIT" /\ CleanName(req[t].name) = <<>> /\ Saving(t)
            => LET n == Len(snap[t].members)
                   mid == loc[t].mid
               IN  /\ Len(state[t].members) = n + 1
                   /\ SubSeq(state[t].members, 1, n) = snap[t].members
                   /\ state[t].members[n + 1].id = mid
                   /\ state[t].members[n + 1].name = PlaceholderName(mid)
                   /\ mid \notin Ids(snap[t].members)
                   /\ mid = issued[Len(issued)]
                   /\ state[t].nextId = mid + 1

(* a submit_and_add with a blank name has saved a placeholder-named member
   next to the member 2 whose stored name an Update had made empty *)
C20_Witness ==
    \E t \in Threads :
        /\ req[t].op = "SUBMIT"
        /\ req[t].name = <<" ">>
        /\ Saved(t)
        /\ \E i \in 1..Len(snap[t].members) :
              snap[t].members[i].id = 2 /\ snap[t].members[i].name = <<>>
        /\ Len(Persisted.doc.members) = Len(snap[t].members) + 1
        /\ Persisted.doc.members[Len(Persisted.doc.members)].name = PlaceholderName(4)

====
